---- MODULE Spec2Model ----
(***************************************************************************)
(* Constrained query execution of utils/dbHelpers.js: the validation gate  *)
(* of executeDbQuery, the dispatcher executeViaSupabaseRPC (generic        *)
(* execute_sql RPC first, pattern translation on a classified failure) and *)
(* the pattern translator parseAndExecuteQuery with its seven recognizers. *)
(*                                                                         *)
(* Query texts and error messages are strings; a string is read character  *)
(* by character with Len and SubSeq, so trimming, lower-casing, substring  *)
(* containment and the regular expressions are computed on the characters. *)
(***************************************************************************)
EXTENDS Integers, Sequences, FiniteSets, TLC

(***************************************************************************)
(* JavaScript string primitives used by the code.                          *)
(***************************************************************************)

CharAt(s, i) == SubSeq(s, i, i)

SetMax(S) == CHOOSE x \in S : \A y \in S : y <= x

SetMin(S) == CHOOSE x \in S : \A y \in S : x <= y

UpperCase == "ABCDEFGHIJKLMNOPQRSTUVWXYZ"

LowerCase == "abcdefghijklmnopqrstuvwxyz"

DigitChars == "0123456789"

UpperChars == {CharAt(UpperCase, i) : i \in 1..Len(UpperCase)}

CharsOf(s) == {CharAt(s, i) : i \in 1..Len(s)}

\* \s of the regular expressions, and the characters trim() removes
Whitespace == {" ", "\t", "\n", "\r"}

\* \d
Digits == CharsOf(DigitChars)

\* \w
WordChars == CharsOf(UpperCase) \cup CharsOf(LowerCase) \cup Digits \cup {"_"}

ToLowerChar(c) ==
    IF c \in UpperChars
    THEN CharAt(LowerCase, CHOOSE i \in 1..Len(UpperCase) : CharAt(UpperCase, i) = c)
    ELSE c

RECURSIVE LowerFrom(_, _)
LowerFrom(s, i) ==
    IF i > Len(s) THEN "" ELSE ToLowerChar(CharAt(s, i)) \o LowerFrom(s, i + 1)

\* String.prototype.toLowerCase
toLowerCase(s) == LowerFrom(s, 1)

\* String.prototype.trim
trim(s) ==
    LET solid == {i \in 1..Len(s) : CharAt(s, i) \notin Whitespace}
    IN  IF solid = {} THEN "" ELSE SubSeq(s, SetMin(solid), SetMax(solid))

\* s.replace(/;+$/, ''): the run of ';' that ends the string is removed
stripSemicolons(s) ==
    LET solid == {i \in 1..Len(s) : CharAt(s, i) # ";"}
    IN  IF solid = {} THEN "" ELSE SubSeq(s, 1, SetMax(solid))

\* String.prototype.startsWith
startsWith(s, w) == Len(s) >= Len(w) /\ SubSeq(s, 1, Len(w)) = w

\* String.prototype.includes: w occurs in s as a substring
includes(s, w) ==
    \E i \in 1..(Len(s) - Len(w) + 1) : SubSeq(s, i, i + Len(w) - 1) = w

\* s.split(';').filter(x => x.trim()).length: the pieces between ';' that
\* hold a character other than whitespace; each is counted at its first
\* such character
statementCount(s) ==
    Cardinality({i \in 1..Len(s) :
        /\ CharAt(s, i) \notin Whitespace \cup {";"}
        /\ \A j \in 1..(i - 1) :
              (\A k \in j..(i - 1) : CharAt(s, k) # ";")
                 => CharAt(s, j) \in Whitespace})

RECURSIVE parseIntFrom(_, _, _)
parseIntFrom(s, i, acc) ==
    IF i > Len(s) \/ CharAt(s, i) \notin Digits THEN acc
    ELSE parseIntFrom(s, i + 1,
            10 * acc + (CHOOSE d \in 0..9 : CharAt(DigitChars, d + 1) = CharAt(s, i)))

\* parseInt on a string of digits
parseInt(s) == parseIntFrom(s, 1, 0)

(***************************************************************************)
(* String.prototype.match for the regular expressions of the translator.   *)
(* A regular expression is a sequence of items; Run matches the items from *)
(* position p with JavaScript's backtracking order: a quantifier is greedy *)
(* (the longest repetition for which the rest matches) and an optional     *)
(* group is tried before it is skipped.                                    *)
(***************************************************************************)

Bol == [t |-> "bol"]

Eol == [t |-> "eol"]

Lit(w) == [t |-> "lit", w |-> w]

\* one character of the class / not of the class
One(set) == [t |-> "rep", set |-> set, neg |-> FALSE, min |-> 1, many |-> FALSE]

NotOne(set) == [t |-> "rep", set |-> set, neg |-> TRUE, min |-> 1, many |-> FALSE]

\* class+ , class* , [^class]+ , [^class]*
Plus(set) == [t |-> "rep", set |-> set, neg |-> FALSE, min |-> 1, many |-> TRUE]

Star(set) == [t |-> "rep", set |-> set, neg |-> FALSE, min |-> 0, many |-> TRUE]

NotPlus(set) == [t |-> "rep", set |-> set, neg |-> TRUE, min |-> 1, many |-> TRUE]

NotStar(set) == [t |-> "rep", set |-> set, neg |-> TRUE, min |-> 0, many |-> TRUE]

\* ( and ) of capture group g
Open(g) == [t |-> "open", g |-> g]

Close(g) == [t |-> "close", g |-> g]

\* (?: body )?
Opt(body) == [t |-> "opt", body |-> body]

\* the '.' of a regular expression without the s flag: any character but a
\* line terminator
LineTerminators == {"\n", "\r"}

NoCaptures == [g \in 1..4 |-> <<0, 0>>]

NoMatch == [ok |-> FALSE, caps |-> NoCaptures]

InClass(it, c) == (c \in it.set) # it.neg

\* the number of characters from p on that are in the class of item it
RunLength(it, s, p) ==
    LET stop == {q \in p..Len(s) : ~InClass(it, CharAt(s, q))}
    IN  IF stop = {} THEN Len(s) + 1 - p ELSE SetMin(stop) - p

RECURSIVE Run(_, _, _, _), Repeat(_, _, _, _, _, _)
Run(re, s, p, caps) ==
    IF Len(re) = 0 THEN [ok |-> TRUE, caps |-> caps]
    ELSE
      LET it == Head(re)
          rest == Tail(re)
      IN  CASE it.t = "bol" ->
                 IF p = 1 THEN Run(rest, s, p, caps) ELSE NoMatch
            [] it.t = "eol" ->
                 IF p = Len(s) + 1 THEN Run(rest, s, p, caps) ELSE NoMatch
            [] it.t = "lit" ->
                 IF p + Len(it.w) - 1 <= Len(s) /\ SubSeq(s, p, p + Len(it.w) - 1) = it.w
                 THEN Run(rest, s, p + Len(it.w), caps)
                 ELSE NoMatch
            [] it.t = "rep" ->
                 LET n == RunLength(it, s, p)
                 IN  Repeat(rest, s, p, caps, it.min,
                            IF it.many \/ n < it.min THEN n ELSE it.min)
            [] it.t = "open" ->
                 Run(rest, s, p, [caps EXCEPT ![it.g] = <<p, 0>>])
            [] it.t = "close" ->
                 Run(rest, s, p, [caps EXCEPT ![it.g] = <<caps[it.g][1], p>>])
            [] it.t = "opt" ->
                 LET taken == Run(it.body \o rest, s, p, caps)
                 IN  IF taken.ok THEN taken ELSE Run(rest, s, p, caps)

\* a greedy quantifier: k repetitions, then k - 1, ... down to min, until the
\* rest of the expression matches
Repeat(rest, s, p, caps, min, k) ==
    IF k < min THEN NoMatch
    ELSE LET after == Run(rest, s, p + k, caps)
         IN  IF after.ok THEN after ELSE Repeat(rest, s, p, caps, min, k - 1)

RECURSIVE Search(_, _, _)
Search(re, s, p) ==
    IF p > Len(s) + 1 THEN NoMatch
    ELSE LET here == Run(re, s, p, NoCaptures)
         IN  IF here.ok THEN here ELSE Search(re, s, p + 1)

\* s.match(re): the match at the leftmost position where one exists
match(s, re) == Search(re, s, 1)

\* m[g]: the text of capture group g, "" when the group took no part in the
\* match (undefined in JavaScript; no group of these expressions can match
\* the empty string)
Group(s, m, g) ==
    IF m.caps[g][2] = 0 THEN "" ELSE SubSeq(s, m.caps[g][1], m.caps[g][2] - 1)

(***************************************************************************)
(* Values of the program: JSON cells, row objects, errors, backend         *)
(* requests.                                                               *)
(***************************************************************************)

\* a JSON scalar: a string or a number
Str(s) == [t |-> "string", s |-> s, n |-> 0]

Num(n) == [t |-> "number", s |-> "", n |-> n]

\* String(v), as Object.entries gives the keys of an object
RECURSIVE numberToString(_)
numberToString(n) ==
    IF n < 10 THEN CharAt(DigitChars, n + 1)
    ELSE numberToString(n \div 10) \o CharAt(DigitChars, (n % 10) + 1)

KeyOf(v) ==
    IF v.t = "string" THEN v.s
    ELSE IF v.t = "number" THEN numberToString(v.n)
    ELSE "undefined"

Undefined == [t |-> "undefined", s |-> "", n |-> 0]

\* an error object: the message, and the code the backend gives its own errors
\* (an Error made by `new Error(message)` has none)
Err(message, code) == [message |-> message, code |-> code]

NewError(message) == Err(message, "")

NoError == Err("", "")

\* a request to the backend: client.rpc('execute_sql', {sql_query}) or a
\* query-builder chain client.from(table).select(columns)[.eq(c, v)][.limit(n)],
\* head = TRUE for select('*', {count: 'exact', head: true})
RpcRequest(sql) ==
    [op |-> "rpc", sql |-> sql, table |-> "", columns |-> "", eq |-> {}, limit |-> {},
     head |-> FALSE]

SelectRequest(table, columns, eq, limit) ==
    [op |-> "select", sql |-> "", table |-> table, columns |-> columns, eq |-> eq,
     limit |-> limit, head |-> FALSE]

CountRequest(table) ==
    [op |-> "select", sql |-> "", table |-> table, columns |-> "*", eq |-> {},
     limit |-> {}, head |-> TRUE]

(***************************************************************************)
(* executeDbQuery: cleaning and the security checks.                       *)
(***************************************************************************)

NotReadOnlyMessage == "SQL handler only supports SELECT statements for read."

ForbiddenMessage == "SQL contains forbidden keywords for security."

MultipleStatementsMessage == "Multiple SQL statements are not allowed for security."

ClientMissingMessage ==
    "Supabase client not available. Please check your Supabase configuration and call initializeDatabase first."

forbidden == {"delete", "update", "insert", "drop", "alter", "create", "truncate"}

\* trimmedQuery of executeDbQuery
cleanQuery(generatedQuery) == trim(stripSemicolons(trim(generatedQuery)))

\* hasForbidden with 'drop' left out of the list
hasForbiddenShortList(lowerCaseQuery) ==
    \E word \in forbidden \ {"drop"} : includes(lowerCaseQuery, word)

\* the forbidden-keyword test: substring containment, as coded
hasForbidden(lowerCaseQuery) == \E word \in forbidden : includes(lowerCaseQuery, word)

\* hasMultipleStatements that lets two statements pass
hasMultipleStatementsOverTwo(trimmedQuery) ==
    includes(trimmedQuery, ";") /\ statementCount(trimmedQuery) > 2

\* the multiple-statements test
hasMultipleStatements(trimmedQuery) ==
    includes(trimmedQuery, ";") /\ statementCount(trimmedQuery) > 1

\* securityError with the multiple-statements check ahead of the other two
securityErrorStatementsFirst(trimmedQuery) ==
    LET lowerCaseQuery == toLowerCase(trimmedQuery)
    IN  IF hasMultipleStatements(trimmedQuery) THEN MultipleStatementsMessage
        ELSE IF ~startsWith(lowerCaseQuery, "select") THEN NotReadOnlyMessage
        ELSE IF hasForbidden(lowerCaseQuery) THEN ForbiddenMessage
        ELSE ""

\* securityError with a rejection of its own for the empty text
securityErrorEmptyQuery(trimmedQuery) ==
    LET lowerCaseQuery == toLowerCase(trimmedQuery)
    IN  IF trimmedQuery = "" THEN "SQL query cannot be empty"
        ELSE IF ~startsWith(lowerCaseQuery, "select") THEN NotReadOnlyMessage
        ELSE IF hasForbidden(lowerCaseQuery) THEN ForbiddenMessage
        ELSE IF hasMultipleStatements(trimmedQuery) THEN MultipleStatementsMessage
        ELSE ""

\* securityError that lets every text pass
securityErrorNone(trimmedQuery) == ""

\* securityError with the keyword check ahead of the read-only check
securityErrorKeywordsFirst(trimmedQuery) ==
    LET lowerCaseQuery == toLowerCase(trimmedQuery)
    IN  IF hasForbidden(lowerCaseQuery) THEN ForbiddenMessage
        ELSE IF ~startsWith(lowerCaseQuery, "select") THEN NotReadOnlyMessage
        ELSE IF hasMultipleStatements(trimmedQuery) THEN MultipleStatementsMessage
        ELSE ""

\* the message of the error the security checks throw, "" when they pass
securityError(trimmedQuery) ==
    LET lowerCaseQuery == toLowerCase(trimmedQuery)
    IN  IF ~startsWith(lowerCaseQuery, "select") THEN NotReadOnlyMessage
        ELSE IF hasForbidden(lowerCaseQuery) THEN ForbiddenMessage
        ELSE IF hasMultipleStatements(trimmedQuery) THEN MultipleStatementsMessage
        ELSE ""

ValidationMessages == {NotReadOnlyMessage, ForbiddenMessage, MultipleStatementsMessage}

(***************************************************************************)
(* executeViaSupabaseRPC: the classification of a failed execute_sql call. *)
(***************************************************************************)

\* cleanedQuery, the text sent to execute_sql
rpcCleanedQuery(query) == stripSemicolons(trim(query))

\* what the inner try block throws for the error object the RPC returned
rpcThrown(error) ==
    IF includes(error.message, "function") /\ includes(error.message, "does not exist")
    THEN NewError("RPC_NOT_AVAILABLE")
    ELSE IF includes(error.message, "syntax error")
    THEN NewError("RPC_SYNTAX_ERROR")
    ELSE error

\* fallsBack that knows the missing function only
fallsBackOnlyWhenMissing(rpcError) ==
    \/ rpcError.message = "RPC_NOT_AVAILABLE"
    \/ includes(rpcError.message, "function")

\* the test of the inner catch block: fall back to query parsing
fallsBack(rpcError) ==
    \/ rpcError.message = "RPC_NOT_AVAILABLE"
    \/ rpcError.message = "RPC_SYNTAX_ERROR"
    \/ includes(rpcError.message, "function")
    \/ includes(rpcError.message, "does not exist")
    \/ includes(rpcError.message, "syntax error")

\* wrapError that drops the message of the error it caught
wrapErrorGeneric(error) == NewError("Query execution failed")

\* the outer catch block
wrapError(error) == NewError("Query execution failed: " \o error.message)

\* rpcRows that returns the rows last to first
rpcRowsReversed(data) ==
    IF data.t = "array"
    THEN [i \in 1..Len(data.rows) |-> data.rows[Len(data.rows) + 1 - i]]
    ELSE IF data.t = "object" THEN <<data.obj>>
    ELSE <<>>

\* the value returned for the data of a successful RPC
rpcRows(data) ==
    IF data.t = "array" THEN data.rows
    ELSE IF data.t = "object" THEN <<data.obj>>
    ELSE <<>>

(***************************************************************************)
(* parseAndExecuteQuery: the seven recognizers, in the order of the code.  *)
(***************************************************************************)

\* (?:\s+limit\s+(\d+))? with the digits in group g
LimitClause(g) ==
    Opt(<<Plus(Whitespace), Lit("limit"), Plus(Whitespace), Open(g), Plus(Digits), Close(g)>>)

\* (?:\s*;)?$
Terminator == <<Opt(<<Star(Whitespace), Lit(";")>>), Eol>>

\* /^select\s+\*\s+from\s+(\w+)(?:\s+limit\s+(\d+))?(?:\s*;)?$/
simpleSelectRe ==
    <<Bol, Lit("select"), Plus(Whitespace), Lit("*"), Plus(Whitespace), Lit("from"),
      Plus(Whitespace), Open(1), Plus(WordChars), Close(1), LimitClause(2)>> \o Terminator

\* /^select\s+count\(\*\)\s*(?:as\s+(\w+)\s+)?from\s+(\w+)(?:\s*;)?$/
countRe ==
    <<Bol, Lit("select"), Plus(Whitespace), Lit("count(*)"), Star(Whitespace),
      Opt(<<Lit("as"), Plus(Whitespace), Open(1), Plus(WordChars), Close(1),
            Plus(Whitespace)>>),
      Lit("from"), Plus(Whitespace), Open(2), Plus(WordChars), Close(2)>> \o Terminator

\* /^select\s+\*\s+from\s+(\w+)\s+where\s+(\w+)\s*=\s*'([^']+)'(?:\s+limit\s+(\d+))?(?:\s*;)?$/
whereStringRe ==
    <<Bol, Lit("select"), Plus(Whitespace), Lit("*"), Plus(Whitespace), Lit("from"),
      Plus(Whitespace), Open(1), Plus(WordChars), Close(1), Plus(Whitespace),
      Lit("where"), Plus(Whitespace), Open(2), Plus(WordChars), Close(2),
      Star(Whitespace), Lit("="), Star(Whitespace), Lit("'"), Open(3), NotPlus({"'"}),
      Close(3), Lit("'"), LimitClause(4)>> \o Terminator

\* /^select\s+\*\s+from\s+(\w+)\s+where\s+(\w+)\s*=\s*(\d+)(?:\s+limit\s+(\d+))?(?:\s*;)?$/
whereNumRe ==
    <<Bol, Lit("select"), Plus(Whitespace), Lit("*"), Plus(Whitespace), Lit("from"),
      Plus(Whitespace), Open(1), Plus(WordChars), Close(1), Plus(Whitespace),
      Lit("where"), Plus(Whitespace), Open(2), Plus(WordChars), Close(2),
      Star(Whitespace), Lit("="), Star(Whitespace), Open(3), Plus(Digits), Close(3),
      LimitClause(4)>> \o Terminator

\* /^select\s+([^*][^from]+)\s+from\s+(\w+)(?:\s+limit\s+(\d+))?(?:\s*;)?$/
selectColumnsRe ==
    <<Bol, Lit("select"), Plus(Whitespace), Open(1), NotOne({"*"}),
      NotPlus({"f", "r", "o", "m"}), Close(1), Plus(Whitespace), Lit("from"),
      Plus(Whitespace), Open(2), Plus(WordChars), Close(2), LimitClause(3)>> \o Terminator

\* /^select\s+(\w+),\s*count\(\*\)\s*(?:as\s+(\w+))?\s+from\s+(\w+)\s+group\s+by\s+(\w+)$/
groupByRe ==
    <<Bol, Lit("select"), Plus(Whitespace), Open(1), Plus(WordChars), Close(1), Lit(","),
      Star(Whitespace), Lit("count(*)"), Star(Whitespace),
      Opt(<<Lit("as"), Plus(Whitespace), Open(2), Plus(WordChars), Close(2)>>),
      Plus(Whitespace), Lit("from"), Plus(Whitespace), Open(3), Plus(WordChars), Close(3),
      Plus(Whitespace), Lit("group"), Plus(Whitespace), Lit("by"), Plus(Whitespace),
      Open(4), Plus(WordChars), Close(4), Eol>>

\* /select.*\*.*from\s+(\w+)/
basicSelectRe ==
    <<Lit("select"), NotStar(LineTerminators), Lit("*"), NotStar(LineTerminators),
      Lit("from"), Plus(Whitespace), Open(1), Plus(WordChars), Close(1)>>

\* const limit = m[g] ? parseInt(m[g]) : undefined, then `if (limit)` before
\* .limit(limit): the limits applied to the query builder (none or one)
limitOf(text) ==
    IF text = "" \/ parseInt(text) = 0 THEN {} ELSE {parseInt(text)}

\* m[g] || 'count'
aliasOf(text) == IF text = "" THEN "count" ELSE text

NoRequest == SelectRequest("", "", {}, {})

Translation(rule, request, alias, groupColumn) ==
    [rule |-> rule, request |-> request, alias |-> alias, groupColumn |-> groupColumn]

\* translate with the loose last-resort recognizer tried before the others
translateLooseFirst(query) ==
    LET lowerQuery == trim(toLowerCase(query))
        basicSelectMatch == match(lowerQuery, basicSelectRe)
    IN  IF basicSelectMatch.ok
        THEN Translation(7, SelectRequest(Group(lowerQuery, basicSelectMatch, 1), "*",
                                          {}, {}), "", "")
        ELSE Translation(0, NoRequest, "", "")

\* The recognizer that takes the query and the backend request it builds:
\* rule 1..7 in the order of the code, rule 0 when no pattern matches.
translate(query) ==
    LET lowerQuery == trim(toLowerCase(query))
        simpleSelectMatch == match(lowerQuery, simpleSelectRe)
        countMatch == match(lowerQuery, countRe)
        whereStringMatch == match(lowerQuery, whereStringRe)
        whereNumMatch == match(lowerQuery, whereNumRe)
        selectColumnsMatch == match(lowerQuery, selectColumnsRe)
        groupByMatch == match(lowerQuery, groupByRe)
        basicSelectMatch == match(lowerQuery, basicSelectRe)
        G(m, g) == Group(lowerQuery, m, g)
    IN  IF simpleSelectMatch.ok THEN
            Translation(1, SelectRequest(G(simpleSelectMatch, 1), "*", {},
                                         limitOf(G(simpleSelectMatch, 2))), "", "")
        ELSE IF countMatch.ok THEN
            Translation(2, CountRequest(G(countMatch, 2)), aliasOf(G(countMatch, 1)), "")
        ELSE IF whereStringMatch.ok THEN
            Translation(3, SelectRequest(G(whereStringMatch, 1), "*",
                              {[column |-> G(whereStringMatch, 2),
                                value |-> Str(G(whereStringMatch, 3))]},
                              limitOf(G(whereStringMatch, 4))), "", "")
        ELSE IF whereNumMatch.ok THEN
            Translation(4, SelectRequest(G(whereNumMatch, 1), "*",
                              {[column |-> G(whereNumMatch, 2),
                                value |-> Num(parseInt(G(whereNumMatch, 3)))]},
                              limitOf(G(whereNumMatch, 4))), "", "")
        ELSE IF selectColumnsMatch.ok THEN
            Translation(5, SelectRequest(G(selectColumnsMatch, 2),
                              trim(G(selectColumnsMatch, 1)), {},
                              limitOf(G(selectColumnsMatch, 3))), "", "")
        ELSE IF groupByMatch.ok /\ G(groupByMatch, 1) = G(groupByMatch, 4) THEN
            Translation(6, SelectRequest(G(groupByMatch, 3), G(groupByMatch, 1), {}, {}),
                        aliasOf(G(groupByMatch, 2)), G(groupByMatch, 1))
        ELSE IF basicSelectMatch.ok THEN
            Translation(7, SelectRequest(G(basicSelectMatch, 1), "*", {}, {}), "", "")
        ELSE Translation(0, NoRequest, "", "")

\* the lines console.warn writes when no pattern matches
SupportedPatternWarnings ==
    << "[DB Helper] Query pattern not recognized, cannot execute via Supabase client",
       "[DB Helper] Supported patterns:",
       "  - SELECT * FROM table",
       "  - SELECT columns FROM table",
       "  - SELECT COUNT(*) FROM table",
       "  - SELECT * FROM table WHERE column = value",
       "  - SELECT column, COUNT(*) FROM table GROUP BY column",
       "[DB Helper] All patterns support optional LIMIT and semicolon",
       "[DB Helper] For complex queries, install the RPC function from backend/database/rpc-setup.sql" >>

\* unsupportedMessage without the query text
unsupportedMessageNoQuery(query) ==
    "Query pattern not supported via Supabase client. Install RPC function for complex queries or check query syntax."

\* the message of the error thrown when no pattern matches
unsupportedMessage(query) ==
    "Query pattern not supported via Supabase client. Query: \"" \o query
      \o "\". Install RPC function for complex queries or check query syntax."

\* the rows a recognizer returns for the answer of its request
RECURSIVE groupCounts(_, _, _)
groupCounts(data, groupColumn, i) ==
    \* grouped after the first i rows: the keys in insertion order, and the counts
    IF i = 0 THEN [keys |-> <<>>, count |-> <<>>]
    ELSE LET g == groupCounts(data, groupColumn, i - 1)
             row == data[i]
             key == KeyOf(IF groupColumn \in DOMAIN row THEN row[groupColumn] ELSE Undefined)
             at == {k \in 1..Len(g.keys) : g.keys[k] = key}
         IN  IF at = {}
             THEN [keys |-> Append(g.keys, key), count |-> Append(g.count, 1)]
             ELSE [keys |-> g.keys,
                   count |-> [g.count EXCEPT ![CHOOSE k \in at : TRUE] = @ + 1]]

\* a property key that is an array index ("0", "7", "12"): Object.entries lists
\* these first, in ascending numeric order, then the other keys in the order
\* of their insertion
isIndexKey(key) ==
    /\ key # ""
    /\ \A i \in 1..Len(key) : CharAt(key, i) \in Digits
    /\ Len(key) = 1 \/ CharAt(key, 1) # "0"

\* the position of key k of keys in Object.entries
entryPosition(keys, k) ==
    LET index == {j \in 1..Len(keys) : isIndexKey(keys[j])}
    IN  IF k \in index
        THEN Cardinality({j \in index : parseInt(keys[j]) <= parseInt(keys[k])})
        ELSE Cardinality(index) + Cardinality({j \in 1..k : j \notin index})

\* Object.entries(grouped).map(([key, count]) => ({[groupColumn]: key,
\* [countAlias]: count})): the key is the property name, a string; a later key
\* of an object literal replaces an equal earlier one
groupRows(data, groupColumn, countAlias) ==
    LET g == groupCounts(data, groupColumn, Len(data))
        at(n) == CHOOSE k \in 1..Len(g.keys) : entryPosition(g.keys, k) = n
    IN  [n \in 1..Len(g.keys) |->
            (countAlias :> Num(g.count[at(n)])) @@ (groupColumn :> Str(g.keys[at(n)]))]

(***************************************************************************)
(* The backend (Supabase): what it can answer to a request.                *)
(***************************************************************************)

MaxRows == 2

MaxTrail == 2

\* the data of an answer: an array of rows, one object, or null
ArrayData(rows) == [t |-> "array", rows |-> rows, obj |-> <<>>]

ObjectData(obj) == [t |-> "object", rows |-> <<>>, obj |-> obj]

NullData == [t |-> "null", rows |-> <<>>, obj |-> <<>>]

SampleRows ==
    { [category |-> Str("books"), stock |-> Num(7)],
      [category |-> Str("toys"), stock |-> Num(12)] }

RowSeqs(n) == UNION {[1..k -> SampleRows] : k \in 0..n}

FunctionMissing == Err("function public.execute_sql(text) does not exist", "42883")

FunctionNotInSchemaCache ==
    Err("Could not find the function public.execute_sql(sql_query) in the schema cache",
        "PGRST202")

SyntaxError == Err("syntax error at or near \";\"", "42601")

RelationMissing == Err("relation \"x\" does not exist", "42P01")

PermissionDenied == Err("permission denied for table users", "42501")

FetchFailed == Err("TypeError: fetch failed", "")

RpcErrors ==
    {FunctionMissing, FunctionNotInSchemaCache, SyntaxError, RelationMissing,
     PermissionDenied, FetchFailed}

StructuredErrors == {RelationMissing, PermissionDenied, FetchFailed}

Answer(data, count, error) == [data |-> data, count |-> count, error |-> error]

\* { data, error } of client.rpc('execute_sql', ...)
RpcAnswers ==
    {Answer(ArrayData(rows), 0, NoError) : rows \in RowSeqs(MaxRows)}
      \cup {Answer(ObjectData(obj), 0, NoError) : obj \in SampleRows}
      \cup {Answer(NullData, 0, NoError)}
      \cup {Answer(NullData, 0, e) : e \in RpcErrors}

\* { data, count, error } of a query-builder chain; a limit is honoured
StructuredAnswers(request) ==
    (IF request.head
     THEN {Answer(NullData, n, NoError) : n \in 0..MaxRows}
     ELSE {Answer(ArrayData(rows), 0, NoError) :
              rows \in {r \in RowSeqs(MaxRows) : \A n \in request.limit : Len(r) <= n}}
            \cup {Answer(NullData, 0, NoError)})
      \cup {Answer(NullData, 0, e) : e \in StructuredErrors}

(***************************************************************************)
(* The texts given to executeDbQuery.                                      *)
(***************************************************************************)

Bodies ==
    { "SELECT * FROM users",
      "SELECT * FROM users; ",
      "SELECT * FROM users ;",
      "select * from users limit 5",
      "SELECT * FROM users LIMIT 0",
      "SELECT COUNT(*) FROM users",
      "SELECT COUNT(*) as total FROM products",
      "SELECT * FROM users WHERE city = 'Chicago'",
      "SELECT * FROM products WHERE price = 100",
      "SELECT id, city FROM users",
      "SELECT name, price FROM products",
      "SELECT id, first_name, email FROM users",
      "SELECT stock, COUNT(*) FROM products GROUP BY stock",
      "SELECT * FROM users; ; ;",
      "SELECT category, COUNT(*) as n FROM products GROUP BY category",
      "SELECT city, COUNT(*) as n FROM users GROUP BY id",
      "SELECT COUNT(*) as total FROM users WHERE city IS NOT NULL",
      "SELECT created_at FROM users",
      "SELECT * FROM users WHERE updated_at = 'x'",
      "select id from users where id = 1",
      "SELECT * FROM nonexistent_table",
      "SELECT *\nFROM users\nWHERE age > 30",
      "SELECT * FROM users; DROP TABLE users",
      "select * from users where note = 'please delete'",
      "SELECT * FROM a; SELECT * FROM b",
      "DROP TABLE users",
      "DELETE FROM users",
      "INSERT INTO users VALUES (1)",
      "selection",
      "" }

RECURSIVE Pads(_, _)
Pads(chars, n) ==
    IF n = 0 THEN {""}
    ELSE LET shorter == Pads(chars, n - 1)
         IN  shorter \cup {p \o c : p \in shorter, c \in chars}

Inputs ==
    {lead \o body \o trail :
        lead \in {"", " "}, body \in Bodies, trail \in Pads({";", " "}, MaxTrail)}

\* executeDbQuery before its first await, for each text: trimmedQuery, the
\* message of the security check that rejects it ("" when none does), and
\* cleanedQuery, the text executeViaSupabaseRPC sends to execute_sql
checked(text) ==
    LET trimmedQuery == cleanQuery(text)
    IN  [trimmedQuery |-> trimmedQuery,
         rejection |-> securityError(trimmedQuery),
         cleanedQuery |-> rpcCleanedQuery(trimmedQuery)]

(***************************************************************************)
(* The state.                                                              *)
(***************************************************************************)

VARIABLES
    supabaseClient,   \* the module variable of supabaseClient.js: "null" or "client"
    dbInstance,       \* let dbInstance of dbHelpers.js
    dbType,           \* let dbType of dbHelpers.js
    pc,               \* where the executeDbQuery call stands
    generatedQuery,   \* the argument of the call
    query,            \* trimmedQuery, the text given to executeViaSupabaseRPC
    requests,         \* the backend requests the call has issued, in order
    answers,          \* the answers the backend has given to them, in order
    parsing,          \* parseAndExecuteQuery was entered
    matched,          \* the translation whose answer the call awaits
    warnings,         \* the lines the call wrote with console.warn
    result,           \* the outcome of the call: rows returned or error thrown
    calls,            \* the executeDbQuery calls running side by side, each with its locals
    handler,          \* the entry point serving a request: "none", "http" or "tool"
    stage,            \* the await the entry point stands at
    maskFields,       \* the fields the entry point was configured to mask
    rawDbData,        \* the rows executeDbQuery gave the entry point
    response          \* what the entry point answered

vars ==
    <<supabaseClient, dbInstance, dbType, pc, generatedQuery, query, requests, answers,
      parsing, matched, warnings, result, calls, handler, stage, maskFields, rawDbData,
      response>>

process == <<supabaseClient, dbInstance, dbType>>

\* the variables of the call, as opposed to those of the process
call == <<pc, generatedQuery, query, requests, answers, parsing, matched, warnings, result>>

\* the variables of the entry points
entry == <<handler, stage, maskFields, rawDbData, response>>

NoTranslation == Translation(0, NoRequest, "", "")

NoResult == [kind |-> "none", rows |-> <<>>, error |-> NoError]

Rows(rows) == [kind |-> "rows", rows |-> rows, error |-> NoError]

Thrown(error) == [kind |-> "error", rows |-> <<>>, error |-> error]

\* the calls that run side by side
CallIds == {1, 2}

\* the locals of an executeDbQuery call that has not started
NoCall ==
    [pc |-> "idle", generatedQuery |-> "", supabaseClient |-> "unread", query |-> "",
     requests |-> <<>>, answers |-> <<>>, parsing |-> FALSE, matched |-> NoTranslation,
     warnings |-> <<>>, result |-> NoResult]

\* nothing answered yet
NoResponse ==
    [kind |-> "none", status |-> 0, data |-> <<>>, masked_summary |-> "",
     ai_summary |-> "", content |-> <<>>, error |-> [code |-> 0, message |-> ""]]

\* const rawDbData / const results before the await of executeDbQuery is over
UndefinedData == [t |-> "undefined", rows |-> <<>>, obj |-> <<>>]

\* getSupabaseClient() of supabaseClient.js
getSupabaseClient == supabaseClient

\* isDatabaseInitialized(): dbInstance !== null || supabaseClient !== null, where
\* undefined !== null is true
isDatabaseInitialized == dbInstance # "null" \/ getSupabaseClient # "null"

\* getDatabaseStatus()
getDatabaseStatus ==
    [hasDirectConnection |-> dbInstance # "null",
     hasSupabaseClient |-> getSupabaseClient # "null",
     dbType |-> dbType,
     isInitialized |-> dbInstance # "null" \/ getSupabaseClient # "null"]

Init ==
    /\ supabaseClient = "null"
    /\ dbInstance = "undefined"
    /\ dbType = "undefined"
    /\ pc = "idle"
    /\ generatedQuery = ""
    /\ query = ""
    /\ requests = <<>>
    /\ answers = <<>>
    /\ parsing = FALSE
    /\ matched = NoTranslation
    /\ warnings = <<>>
    /\ result = NoResult
    /\ calls = [i \in CallIds |-> NoCall]
    /\ handler = "none"
    /\ stage = "idle"
    /\ maskFields = {}
    /\ rawDbData = UndefinedData
    /\ response = NoResponse

(***************************************************************************)
(* Initialization of the client handle.                                    *)
(***************************************************************************)

\* initializeSupabaseClient(config): throws when the URL or the key is missing
InitializeSupabaseClient(configured) ==
    /\ configured
    /\ supabaseClient' = "client"
    /\ UNCHANGED <<dbInstance, dbType, pc, generatedQuery, query, requests, answers,
                   parsing, matched, warnings, result>>

\* initializeDatabase(config): the test queries it awaits write no state
InitializeDatabase(configured) ==
    /\ dbType' = "supabase"
    /\ supabaseClient' =
          IF supabaseClient = "null" /\ configured THEN "client" ELSE supabaseClient
    /\ UNCHANGED <<dbInstance, pc, generatedQuery, query, requests, answers, parsing,
                   matched, warnings, result>>

(***************************************************************************)
(* executeDbQuery, one step per stretch of code between two awaits.        *)
(***************************************************************************)

\* executeDbQuery that sends the text to execute_sql before it checks it
ExecuteDbQueryRpcFirst(text) ==
    /\ pc = "idle"
    /\ generatedQuery' = text
    /\ LET trimmedQuery == checked(text).trimmedQuery
           rejection == checked(text).rejection
       IN  /\ requests' = <<RpcRequest(checked(text).cleanedQuery)>>
           /\ IF rejection # ""
              THEN /\ pc' = "failed"
                   /\ result' = Thrown(NewError(rejection))
                   /\ UNCHANGED query
              ELSE IF supabaseClient = "null"
              THEN /\ pc' = "failed"
                   /\ result' = Thrown(NewError(ClientMissingMessage))
                   /\ UNCHANGED query
              ELSE /\ pc' = "rpc"
                   /\ query' = trimmedQuery
                   /\ UNCHANGED result
    /\ UNCHANGED <<process, answers, parsing, matched, warnings>>

\* executeDbQuery that records the type of the backend it is about to use
ExecuteDbQuerySettingType(text) ==
    /\ pc = "idle"
    /\ generatedQuery' = text
    /\ dbType' = "supabase"
    /\ LET trimmedQuery == checked(text).trimmedQuery
           rejection == checked(text).rejection
       IN  IF rejection # ""
           THEN /\ pc' = "failed"
                /\ result' = Thrown(NewError(rejection))
                /\ UNCHANGED <<query, requests>>
           ELSE IF supabaseClient = "null"
           THEN /\ pc' = "failed"
                /\ result' = Thrown(NewError(ClientMissingMessage))
                /\ UNCHANGED <<query, requests>>
           ELSE /\ pc' = "rpc"
                /\ query' = trimmedQuery
                /\ requests' = <<RpcRequest(checked(text).cleanedQuery)>>
                /\ UNCHANGED result
    /\ UNCHANGED <<supabaseClient, dbInstance, answers, parsing, matched, warnings>>

\* The call up to its first await: cleaning, security checks, client lookup,
\* and the execute_sql request of executeViaSupabaseRPC.
ExecuteDbQuery(text) ==
    /\ pc = "idle"
    /\ generatedQuery' = text
    /\ LET trimmedQuery == checked(text).trimmedQuery
           rejection == checked(text).rejection
       IN  IF rejection # ""
           THEN /\ pc' = "failed"
                /\ result' = Thrown(NewError(rejection))
                /\ UNCHANGED <<query, requests>>
           ELSE IF supabaseClient = "null"
           THEN /\ pc' = "failed"
                /\ result' = Thrown(NewError(ClientMissingMessage))
                /\ UNCHANGED <<query, requests>>
           ELSE /\ pc' = "rpc"
                /\ query' = trimmedQuery
                /\ requests' = <<RpcRequest(checked(text).cleanedQuery)>>
                /\ UNCHANGED result
    /\ UNCHANGED <<process, answers, parsing, matched, warnings>>

\* parseAndExecuteQuery up to its await: the request of the first recognizer
\* that matches, or the error of an unsupported pattern (thrown through the
\* outer catch of executeViaSupabaseRPC)
ParseAndExecuteQuery ==
    LET translation == translate(query)
    IN  /\ parsing' = TRUE
        /\ IF translation.rule = 0
           THEN /\ pc' = "failed"
                /\ warnings' = SupportedPatternWarnings
                /\ result' = Thrown(wrapError(NewError(unsupportedMessage(query))))
                /\ UNCHANGED <<requests, matched>>
           ELSE /\ pc' = "structured"
                /\ requests' = Append(requests, translation.request)
                /\ matched' = translation
                /\ UNCHANGED <<warnings, result>>

\* RpcReturns whose catch block logs an error that does not fall back and
\* settles nothing
RpcReturnsUnsettled(answer) ==
    /\ pc = "rpc"
    /\ answer \in RpcAnswers
    /\ answers' = Append(answers, answer)
    /\ IF answer.error = NoError
       THEN /\ pc' = "completed"
            /\ result' = Rows(rpcRows(answer.data))
            /\ UNCHANGED <<requests, parsing, matched, warnings>>
       ELSE IF fallsBack(rpcThrown(answer.error))
       THEN ParseAndExecuteQuery
       ELSE /\ pc' = "logged"
            /\ UNCHANGED <<result, requests, parsing, matched, warnings>>
    /\ UNCHANGED <<process, generatedQuery, query>>

\* The execute_sql RPC answers: rows, fallback, or failure.
RpcReturns(answer) ==
    /\ pc = "rpc"
    /\ answer \in RpcAnswers
    /\ answers' = Append(answers, answer)
    /\ IF answer.error = NoError
       THEN /\ pc' = "completed"
            /\ result' = Rows(rpcRows(answer.data))
            /\ UNCHANGED <<requests, parsing, matched, warnings>>
       ELSE IF fallsBack(rpcThrown(answer.error))
       THEN ParseAndExecuteQuery
       ELSE /\ pc' = "failed"
            /\ result' = Thrown(wrapError(rpcThrown(answer.error)))
            /\ UNCHANGED <<requests, parsing, matched, warnings>>
    /\ UNCHANGED <<process, generatedQuery, query>>

\* structuredResult that names the field of a count 'count' whatever the alias
structuredResultNoAlias(translation, answer) ==
    IF answer.error # NoError THEN Thrown(wrapError(answer.error))
    ELSE IF translation.rule = 2
    THEN Rows(<<("count" :> Num(answer.count))>>)
    ELSE IF translation.rule = 6 /\ answer.data.t # "null"
    THEN Rows(groupRows(answer.data.rows, translation.groupColumn, "count"))
    ELSE Rows(answer.data.rows)

\* what the matched recognizer returns for the answer of its request
structuredResult(translation, answer) ==
    IF answer.error # NoError THEN Thrown(wrapError(answer.error))
    ELSE IF translation.rule = 2
    THEN Rows(<<(translation.alias :> Num(answer.count))>>)
    ELSE IF translation.rule = 6
    THEN IF answer.data.t = "null"
         THEN Thrown(wrapError(NewError(
                  "Cannot read properties of null (reading 'forEach')")))
         ELSE Rows(groupRows(answer.data.rows, translation.groupColumn,
                             translation.alias))
    ELSE Rows(answer.data.rows)

\* StructuredReturns that sends the request again when it failed
StructuredReturnsRetry(answer) ==
    /\ pc = "structured"
    /\ answer \in StructuredAnswers(matched.request)
    /\ answers' = Append(answers, answer)
    /\ IF answer.error # NoError /\ Len(requests) < 3
       THEN /\ requests' = Append(requests, matched.request)
            /\ UNCHANGED <<pc, result>>
       ELSE /\ result' = structuredResult(matched, answer)
            /\ pc' = IF result'.kind = "rows" THEN "completed" ELSE "failed"
            /\ UNCHANGED requests
    /\ UNCHANGED <<process, generatedQuery, query, parsing, matched, warnings>>

\* The query builder answers the request of the fallback.
StructuredReturns(answer) ==
    /\ pc = "structured"
    /\ answer \in StructuredAnswers(matched.request)
    /\ answers' = Append(answers, answer)
    /\ result' = structuredResult(matched, answer)
    /\ pc' = IF result'.kind = "rows" THEN "completed" ELSE "failed"
    /\ UNCHANGED <<process, generatedQuery, query, requests, parsing, matched, warnings>>

\* The caller has the outcome; the next call starts afresh.
Return ==
    /\ pc \in {"completed", "failed"}
    /\ pc' = "idle"
    /\ generatedQuery' = ""
    /\ query' = ""
    /\ requests' = <<>>
    /\ answers' = <<>>
    /\ parsing' = FALSE
    /\ matched' = NoTranslation
    /\ warnings' = <<>>
    /\ result' = NoResult
    /\ UNCHANGED process

\* one executeDbQuery call at a time, given any of the texts
Next ==
    \/ \E configured \in BOOLEAN :
          InitializeSupabaseClient(configured) /\ UNCHANGED <<calls, entry>>
    \/ \E configured \in BOOLEAN :
          InitializeDatabase(configured) /\ UNCHANGED <<calls, entry>>
    \/ \E text \in Inputs : ExecuteDbQuery(text) /\ UNCHANGED <<calls, entry>>
    \/ \E answer \in RpcAnswers : RpcReturns(answer) /\ UNCHANGED <<calls, entry>>
    \/ \E answer \in StructuredAnswers(matched.request) :
          StructuredReturns(answer) /\ UNCHANGED <<calls, entry>>
    \/ Return /\ UNCHANGED <<calls, entry>>

Spec == Init /\ [][Next]_vars

\* the backend answers every request it is sent
FairSpec ==
    /\ Spec
    /\ WF_vars(\E answer \in RpcAnswers : RpcReturns(answer) /\ UNCHANGED <<calls, entry>>)
    /\ WF_vars(\E answer \in StructuredAnswers(matched.request) :
                  StructuredReturns(answer) /\ UNCHANGED <<calls, entry>>)

(***************************************************************************)
(* Calls side by side: each call with its own locals, the handle shared.   *)
(***************************************************************************)

\* executeDbQuery(generatedQuery) up to its first await, given what
\* getSupabaseClient() returns: the locals of the call
executeDbQuery(text, client) ==
    LET entered == checked(text)
        begun == [NoCall EXCEPT !.generatedQuery = text]
    IN  IF entered.rejection # ""
        THEN [begun EXCEPT !.pc = "failed",
                           !.result = Thrown(NewError(entered.rejection))]
        ELSE IF client = "null"
        THEN [begun EXCEPT !.pc = "failed", !.supabaseClient = client,
                           !.result = Thrown(NewError(ClientMissingMessage))]
        ELSE [begun EXCEPT !.pc = "rpc", !.supabaseClient = client,
                           !.query = entered.trimmedQuery,
                           !.requests = <<RpcRequest(entered.cleanedQuery)>>]

\* parseAndExecuteQuery(client, query) up to its await
parseAndExecuteQuery(c) ==
    LET translation == translate(c.query)
    IN  IF translation.rule = 0
        THEN [c EXCEPT !.parsing = TRUE, !.pc = "failed",
                       !.warnings = SupportedPatternWarnings,
                       !.result = Thrown(wrapError(NewError(unsupportedMessage(c.query))))]
        ELSE [c EXCEPT !.parsing = TRUE, !.pc = "structured",
                       !.requests = Append(@, translation.request),
                       !.matched = translation]

\* executeViaSupabaseRPC after the await of client.rpc
rpcAnswered(c, answer) ==
    LET answered == [c EXCEPT !.answers = Append(@, answer)]
    IN  IF answer.error = NoError
        THEN [answered EXCEPT !.pc = "completed", !.result = Rows(rpcRows(answer.data))]
        ELSE IF fallsBack(rpcThrown(answer.error))
        THEN parseAndExecuteQuery(answered)
        ELSE [answered EXCEPT !.pc = "failed",
                              !.result = Thrown(wrapError(rpcThrown(answer.error)))]

\* parseAndExecuteQuery after the await of the query builder
queryAnswered(c, answer) ==
    LET outcome == structuredResult(c.matched, answer)
    IN  [c EXCEPT !.answers = Append(@, answer),
                  !.result = outcome,
                  !.pc = IF outcome.kind = "rows" THEN "completed" ELSE "failed"]

MaxCallRows == 1

CallTexts ==
    { "SELECT * FROM users",
      "SELECT COUNT(*) as total FROM products",
      "SELECT category, COUNT(*) as n FROM products GROUP BY category",
      "DROP TABLE users" }

\* the answers of the backend to the calls side by side
CallRpcAnswers ==
    {a \in RpcAnswers :
        \/ a.error \in {FunctionMissing, PermissionDenied}
        \/ a.error = NoError /\ a.data.t = "array" /\ Len(a.data.rows) <= MaxCallRows}

CallStructuredAnswers(request) ==
    {a \in StructuredAnswers(request) :
        \/ a.error = RelationMissing
        \/ a.error = NoError /\ (a.data.t = "array" => Len(a.data.rows) <= MaxCallRows)}

\* CallStarts that answers from the outcome of a finished call with the same
\* text, when there is one, instead of asking the backend
CallStartsCached(i, text) ==
    /\ calls[i].pc = "idle"
    /\ LET finished == {j \in CallIds : /\ calls[j].pc = "completed"
                                        /\ calls[j].generatedQuery = text}
       IN  calls' = [calls EXCEPT ![i] =
                IF finished = {} THEN executeDbQuery(text, getSupabaseClient)
                ELSE LET j == CHOOSE k \in finished : TRUE
                     IN  [NoCall EXCEPT !.pc = "completed",
                                        !.generatedQuery = text,
                                        !.supabaseClient = calls[j].supabaseClient,
                                        !.result = calls[j].result]]
    /\ UNCHANGED <<process, call, entry>>

\* CallRpcReturns with trimmedQuery kept in a variable of the module, which
\* holds the text of the call started last
CallRpcReturnsSharedQuery(i, answer) ==
    /\ calls[i].pc = "rpc"
    /\ LET latest == CHOOSE k \in CallIds :
                         /\ calls[k].pc # "idle"
                         /\ \A j \in CallIds : calls[j].pc = "idle" \/ j <= k
       IN  calls' = [calls EXCEPT ![i] =
                rpcAnswered([calls[i] EXCEPT !.query = calls[latest].query], answer)]
    /\ UNCHANGED <<process, call, entry>>

CallStarts(i, text) ==
    /\ calls[i].pc = "idle"
    /\ calls' = [calls EXCEPT ![i] = executeDbQuery(text, getSupabaseClient)]
    /\ UNCHANGED <<process, call, entry>>

CallRpcReturns(i, answer) ==
    /\ calls[i].pc = "rpc"
    /\ calls' = [calls EXCEPT ![i] = rpcAnswered(calls[i], answer)]
    /\ UNCHANGED <<process, call, entry>>

CallStructuredReturns(i, answer) ==
    /\ calls[i].pc = "structured"
    /\ calls' = [calls EXCEPT ![i] = queryAnswered(calls[i], answer)]
    /\ UNCHANGED <<process, call, entry>>

CallReturns(i) ==
    /\ calls[i].pc \in {"completed", "failed"}
    /\ calls' = [calls EXCEPT ![i] = NoCall]
    /\ UNCHANGED <<process, call, entry>>

\* executeDbQuery calls running side by side
CallsNext ==
    \/ \E configured \in BOOLEAN :
          InitializeSupabaseClient(configured) /\ UNCHANGED <<calls, entry>>
    \/ \E i \in CallIds : \E text \in CallTexts : CallStarts(i, text)
    \/ \E i \in CallIds : \E answer \in CallRpcAnswers : CallRpcReturns(i, answer)
    \/ \E i \in CallIds : \E answer \in CallStructuredAnswers(calls[i].matched.request) :
          CallStructuredReturns(i, answer)
    \/ \E i \in CallIds : CallReturns(i)

CallsSpec == Init /\ [][CallsNext]_vars

(***************************************************************************)
(* The entry points: handleNaturalLanguageQuery (HTTP) and the MCP handler *)
(* of tools/dynamicQuery with executeNaturalLanguageQueryTool.             *)
(***************************************************************************)

\* res.status(status).json({ error: { code, message } })
JsonError(status, message) ==
    [NoResponse EXCEPT !.kind = "json", !.status = status,
                       !.error = [code |-> status, message |-> message]]

\* res.json({ data, masked_summary, ai_summary })
JsonSuccess(data, summary, aiSummary) ==
    [NoResponse EXCEPT !.kind = "json", !.status = 200, !.data = data,
                       !.masked_summary = summary, !.ai_summary = aiSummary]

\* return { result }
McpResult(parsed) == [NoResponse EXCEPT !.kind = "result", !.content = parsed.content]

\* return { error: { code: -32000, message: err.message } }
McpError(message) ==
    [NoResponse EXCEPT !.kind = "error", !.error = [code |-> -32000, message |-> message]]

\* the fields of a row in the order of their insertion: the columns as the
\* backend sends them, the grouped column before its count
KeyOrder == <<"category", "stock", "count", "n", "total">>

maskValue == "***"

\* `${value}` of a field, after maskSensitiveFields
fieldText(row, key, fieldsToMask) ==
    IF key \in fieldsToMask THEN maskValue
    ELSE IF row[key].t = "number" THEN numberToString(row[key].n)
    ELSE row[key].s

RECURSIVE recordText(_, _, _)
recordText(row, k, fieldsToMask) ==
    IF k > Len(KeyOrder) THEN ""
    ELSE (IF KeyOrder[k] \in DOMAIN row
          THEN "  " \o KeyOrder[k] \o ": " \o fieldText(row, KeyOrder[k], fieldsToMask) \o "\n"
          ELSE "")
         \o recordText(row, k + 1, fieldsToMask)

RECURSIVE recordsText(_, _, _)
recordsText(records, i, fieldsToMask) ==
    IF i > Len(records) THEN ""
    ELSE "Record " \o numberToString(i) \o ":\n" \o recordText(records[i], 1, fieldsToMask)
         \o "\n" \o recordsText(records, i + 1, fieldsToMask)

MAX_LENGTH == 2000

\* formatResultsSummary(results, { maskFields }) for an array of rows
formatResultsSummary(results, fieldsToMask) ==
    IF Len(results) = 0 THEN "No data found for your query."
    ELSE LET summary == "Found " \o numberToString(Len(results)) \o " record(s):\n\n"
                          \o recordsText(results, 1, fieldsToMask)
         IN  IF Len(summary) > MAX_LENGTH
             THEN SubSeq(summary, 1, MAX_LENGTH) \o "\n... (truncated)"
             ELSE summary

\* responseSchema.parse(value) does not throw: every item of content has type
\* "text" and a text
responseSchemaAccepts(value) ==
    \A k \in 1..Len(value.content) :
        LET item == value.content[k]
        IN  /\ "type" \in DOMAIN item /\ item["type"] = "text"
            /\ "text" \in DOMAIN item

\* the message of the ZodError that responseSchema.parse throws
ZodIssues == "[{\"code\":\"invalid_literal\",\"expected\":\"text\",\"path\":[\"content\",0,\"type\"]}]"

SummaryUnavailable == "Summary not available."

NoConnectionMessage == "No database connection available. Call initializeDatabase first."

DangerousMessage == "SQL query is invalid or dangerous (non-SELECT or contains DML/DDL)."

blockedWords == {"drop", "alter", "delete", "insert", "update", "truncate"}

\* the texts the model answers the query prompt with, after cleanMarkdownResponse
AiQueries ==
    { "SELECT * FROM users",
      " SELECT COUNT(*) as total FROM products\n",
      "SELECT stock, COUNT(*) FROM products GROUP BY stock",
      "SELECT * FROM users WHERE updated_at = 'x'",
      "Sorry, I cannot help with that." }

AiSummaries == {"The query returned the rows of the table."}

AiErrors == {"AI API request failed"}

\* what callAiApi resolves to, or the error it rejects with
AiAnswers(texts) ==
    {[ok |-> TRUE, text |-> t] : t \in texts} \cup {[ok |-> FALSE, text |-> e] : e \in AiErrors}

MaskSets == {{}, {"stock"}}

\* the error response of the entry point that is serving
errorResponse(message) ==
    IF handler = "http" THEN JsonError(500, "Could not process query: " \o message)
    ELSE McpError(message)

\* handleNaturalLanguageQuery(req, res) up to the await of getDbSchema, which
\* throws at once when there is no connection
HandleNaturalLanguageQuery(text, redactFields) ==
    /\ handler = "none"
    /\ pc = "idle"
    /\ handler' = "http"
    /\ maskFields' = redactFields
    /\ IF trim(text) = ""
       THEN /\ stage' = "responded"
            /\ response' = JsonError(400, "Missing or empty \"query\" field.")
       ELSE IF getSupabaseClient = "null"
       THEN /\ stage' = "responded"
            /\ response' = JsonError(500, "Could not process query: " \o NoConnectionMessage)
       ELSE /\ stage' = "schema"
            /\ UNCHANGED response
    /\ UNCHANGED <<process, call, calls, rawDbData>>

\* the handler of tools/dynamicQuery: executeNaturalLanguageQueryTool up to the
\* await of getDbSchema
DynamicQuery(fields) ==
    /\ handler = "none"
    /\ pc = "idle"
    /\ handler' = "tool"
    /\ maskFields' = fields
    /\ IF getSupabaseClient = "null"
       THEN /\ stage' = "responded"
            /\ response' = McpError(NoConnectionMessage)
       ELSE /\ stage' = "schema"
            /\ UNCHANGED response
    /\ UNCHANGED <<process, call, calls, rawDbData>>

\* getDbSchema resolves (with a client every failure inside it is caught); the
\* query prompt is sent to the model
GetDbSchemaReturns ==
    /\ stage = "schema"
    /\ stage' = "generating"
    /\ UNCHANGED <<process, call, calls, handler, maskFields, rawDbData, response>>

\* callAiApi answers the query prompt: the HTTP handler trims the text and
\* refuses what is not a select or holds a blocked word; both entry points
\* then call executeDbQuery
QueryGenerated(answer) ==
    /\ stage = "generating"
    /\ pc = "idle"
    /\ answer \in AiAnswers(AiQueries)
    /\ LET cleanedQuery == trim(answer.text)
           q == toLowerCase(cleanedQuery)
       IN  IF ~answer.ok
           THEN /\ stage' = "responded"
                /\ response' = errorResponse(answer.text)
                /\ UNCHANGED <<process, call>>
           ELSE IF handler = "http"
                   /\ (~startsWith(q, "select") \/ \E w \in blockedWords : includes(q, w))
           THEN /\ stage' = "responded"
                /\ response' = errorResponse(DangerousMessage)
                /\ UNCHANGED <<process, call>>
           ELSE /\ stage' = "executing"
                /\ ExecuteDbQuery(IF handler = "http" THEN cleanedQuery ELSE answer.text)
                /\ UNCHANGED response
    /\ UNCHANGED <<calls, handler, maskFields, rawDbData>>

\* the await of executeDbQuery is over: its error goes to the catch block, its
\* rows are kept and the summary prompt is sent to the model
ExecuteDbQueryReturns ==
    /\ stage = "executing"
    /\ Return
    /\ IF result.kind = "error"
       THEN /\ stage' = "responded"
            /\ response' = errorResponse(result.error.message)
            /\ UNCHANGED rawDbData
       ELSE /\ stage' = "summarizing"
            /\ rawDbData' = ArrayData(result.rows)
            /\ UNCHANGED response
    /\ UNCHANGED <<calls, handler, maskFields>>

\* SummaryGenerated whose HTTP handler lets the error of the summary reach the
\* outer catch block
SummaryGeneratedUncaught(answer) ==
    /\ stage = "summarizing"
    /\ answer \in AiAnswers(AiSummaries)
    /\ stage' = "responded"
    /\ response' =
          IF ~answer.ok THEN errorResponse(answer.text)
          ELSE JsonSuccess(rawDbData.rows,
                           formatResultsSummary(rawDbData.rows, maskFields), answer.text)
    /\ UNCHANGED <<process, call, calls, handler, maskFields, rawDbData>>

\* callAiApi answers the summary prompt; the entry point formats the rows and
\* responds
SummaryGenerated(answer) ==
    /\ stage = "summarizing"
    /\ answer \in AiAnswers(AiSummaries)
    /\ stage' = "responded"
    /\ LET summary == formatResultsSummary(rawDbData.rows, maskFields)
           aiSummary == IF answer.ok THEN answer.text ELSE SummaryUnavailable
           value == [content |-> <<[data |-> summary], [summary |-> answer.text]>>]
       IN  response' =
              IF handler = "http" THEN JsonSuccess(rawDbData.rows, summary, aiSummary)
              ELSE IF ~answer.ok THEN McpError(answer.text)
              ELSE IF responseSchemaAccepts(value) THEN McpResult(value)
              ELSE McpError(ZodIssues)
    /\ UNCHANGED <<process, call, calls, handler, maskFields, rawDbData>>

\* the response is sent; the entry point can serve the next request
Responded ==
    /\ stage = "responded"
    /\ handler' = "none"
    /\ stage' = "idle"
    /\ maskFields' = {}
    /\ rawDbData' = UndefinedData
    /\ response' = NoResponse
    /\ UNCHANGED <<process, call, calls>>

\* requests served by the entry points, one at a time
EntryNext ==
    \/ \E configured \in BOOLEAN :
          InitializeSupabaseClient(configured) /\ UNCHANGED <<calls, entry>>
    \/ \E configured \in BOOLEAN :
          InitializeDatabase(configured) /\ UNCHANGED <<calls, entry>>
    \/ \E text \in {"", "  ", "how many products are there?"} :
          \E redactFields \in MaskSets : HandleNaturalLanguageQuery(text, redactFields)
    \/ \E fields \in MaskSets : DynamicQuery(fields)
    \/ GetDbSchemaReturns
    \/ \E answer \in AiAnswers(AiQueries) : QueryGenerated(answer)
    \/ \E answer \in RpcAnswers :
          stage = "executing" /\ RpcReturns(answer) /\ UNCHANGED <<calls, entry>>
    \/ \E answer \in StructuredAnswers(matched.request) :
          stage = "executing" /\ StructuredReturns(answer) /\ UNCHANGED <<calls, entry>>
    \/ ExecuteDbQueryReturns
    \/ \E answer \in AiAnswers(AiSummaries) : SummaryGenerated(answer)
    \/ Responded

EntrySpec == Init /\ [][EntryNext]_vars

(***************************************************************************)
(* Properties.                                                             *)
(***************************************************************************)

\* the call in progress or finished: its text as the security checks see it
lowerCaseQuery == toLowerCase(cleanQuery(generatedQuery))

Started == pc # "idle"

\* the call has just passed or failed the checks of executeDbQuery: nothing has
\* been answered yet
Checked == Started /\ answers = <<>>

\* a forbidden keyword as a whole word (\bword\b): not preceded and not
\* followed by a word character
hasForbiddenWord(text) ==
    LET t == text
    IN  \E word \in forbidden :
            \E i \in 1..(Len(t) - Len(word) + 1) :
                /\ SubSeq(t, i, i + Len(word) - 1) = word
                /\ (i = 1 \/ CharAt(t, i - 1) \notin WordChars)
                /\ (i + Len(word) > Len(t) \/ CharAt(t, i + Len(word)) \notin WordChars)

\* the classes of the errors of the generic path, by the code of the backend
CapabilityAbsent(error) == error.code \in {"42883", "PGRST202"}

SyntaxIncompatible(error) == error.code = "42601"

\* the error execute_sql answered with, NoError when it gave data or has not
\* answered
rpcError == IF Len(answers) >= 1 THEN answers[1].error ELSE NoError

\* the error the query builder answered with
structuredError == IF Len(answers) >= 2 THEN answers[2].error ELSE NoError

\* C1: a call rejected by a security check (not read-only, forbidden keyword,
\* multiple statements) has issued no backend request, neither the RPC nor a
\* query-builder chain, and has not entered the translator.
C1_RejectionIssuesNoRequest ==
    (result.kind = "error" /\ result.error.message \in ValidationMessages)
       => requests = <<>> /\ answers = <<>> /\ ~parsing

C1_Witness ==
    /\ pc = "failed"
    /\ supabaseClient = "client"
    /\ result.error.message = MultipleStatementsMessage
    /\ requests = <<>>

\* C2: a text that begins with select and holds a forbidden keyword only
\* inside a longer word (created_at) is not rejected by the keyword check; it
\* goes to the backend when nothing else stops it.
C2_SubstringKeywordAccepted ==
    (/\ Started
     /\ startsWith(lowerCaseQuery, "select")
     /\ hasForbidden(lowerCaseQuery)
     /\ ~hasForbiddenWord(lowerCaseQuery))
       => /\ result.error.message # ForbiddenMessage
          /\ (supabaseClient = "client" /\ ~hasMultipleStatements(cleanQuery(generatedQuery))
                 => requests # <<>>)

\* C3: a text that begins with select and holds a forbidden keyword as a
\* whole word fails with the forbidden-keyword error and no request is issued.
C3_KeywordRejected ==
    (/\ Checked
     /\ startsWith(toLowerCase(trim(generatedQuery)), "select")
     /\ hasForbiddenWord(toLowerCase(generatedQuery)))
       => /\ pc = "failed"
          /\ result = Thrown(NewError(ForbiddenMessage))
          /\ requests = <<>>

C3_Witness ==
    /\ pc = "failed"
    /\ startsWith(toLowerCase(trim(generatedQuery)), "select")
    /\ hasForbiddenWord(toLowerCase(generatedQuery))
    /\ supabaseClient = "client"
    /\ result.error.message = ForbiddenMessage

\* C4: a non-empty text that does not begin with select (case-insensitively,
\* once trimmed and rid of its trailing terminators) fails with the
\* not-read-only error and no request is issued.
C4_NotReadOnlyRejected ==
    (/\ Checked
     /\ generatedQuery # ""
     /\ ~startsWith(lowerCaseQuery, "select"))
       => /\ pc = "failed"
          /\ result = Thrown(NewError(NotReadOnlyMessage))
          /\ requests = <<>>

C4_Witness ==
    /\ pc = "failed"
    /\ generatedQuery # ""
    /\ ~startsWith(lowerCaseQuery, "select")
    /\ hasForbiddenWord(lowerCaseQuery)
    /\ supabaseClient = "client"
    /\ result.error.message = NotReadOnlyMessage

\* C5: when execute_sql fails with an error that is neither capability-absent
\* nor a syntax error, the call fails at once: the translator is not entered
\* and no query-builder request is issued.
C5_OtherErrorFailsDirectly ==
    (/\ rpcError # NoError
     /\ ~CapabilityAbsent(rpcError)
     /\ ~SyntaxIncompatible(rpcError))
       => pc = "failed" /\ ~parsing /\ Len(requests) = 1

\* C6: when execute_sql fails with a capability-absent or a syntax error, the
\* translator runs on the validated text: its request is issued, or the call
\* ends with the error of an unsupported pattern; the call never ends with
\* the error of the RPC.
C6_ClassifiedErrorFallsBack ==
    (rpcError # NoError /\ (CapabilityAbsent(rpcError) \/ SyntaxIncompatible(rpcError)))
       => /\ parsing
          /\ IF Len(requests) = 1
             THEN /\ pc = "failed"
                  /\ securityError(query) = ""
                  /\ translate(query).rule = 0
                  /\ includes(result.error.message, "Query pattern not supported")
             ELSE /\ matched.rule \in 1..7
                  /\ Len(requests) = 2
                  /\ requests[2] = matched.request
                  /\ pc = "failed" => structuredError # NoError
                                        \/ (matched.rule = 6 /\ answers[2].data.t = "null")

C6_Witness ==
    /\ SyntaxIncompatible(rpcError)
    /\ pc = "structured"
    /\ matched.rule = 3

\* C7: within one call execute_sql is requested at most once, the fallback
\* issues at most one query-builder request after it, an answer is awaited
\* only for the last request, and a failed fallback request ends the call
\* with that failure: a finished call issues nothing more.
C7_State ==
    /\ Len(requests) <= 2
    /\ \A i \in 1..Len(requests) : (requests[i].op = "rpc") <=> (i = 1)
    /\ Len(answers) <= Len(requests)
    /\ pc \in {"rpc", "structured"} <=> Len(answers) < Len(requests)
    /\ structuredError # NoError =>
          pc = "failed" /\ includes(result.error.message, structuredError.message)

C7_Step ==
    /\ Len(requests') > Len(requests) => Len(requests') = Len(requests) + 1
    /\ pc \in {"completed", "failed"} => Len(requests') <= Len(requests)
    /\ pc \in {"completed", "failed"} => answers' = answers \/ answers' = <<>>

C7_SwitchOnceNoRetry == [](C7_State) /\ [][C7_Step]_vars

C7_Witness ==
    /\ pc = "failed"
    /\ Len(requests) = 2
    /\ structuredError = RelationMissing

\* C8 as claimed: a backend failure that does not trigger the fallback, and a
\* backend failure of the fallback request, reach the caller as the
\* backend's own error.
C8_BackendErrorUnmodified ==
    /\ (rpcError # NoError /\ ~parsing) => result.error = rpcError
    /\ structuredError # NoError => result.error = structuredError

\* C8 amended: such a failure reaches the caller as a new error whose message
\* is the backend's message after the prefix "Query execution failed: ".
C8_BackendErrorPrefixed ==
    /\ (rpcError # NoError /\ ~parsing) =>
          /\ pc = "failed"
          /\ result.error = NewError("Query execution failed: " \o rpcError.message)
    /\ structuredError # NoError =>
          /\ pc = "failed"
          /\ result.error = NewError("Query execution failed: " \o structuredError.message)

C8_Witness ==
    /\ pc = "failed"
    /\ structuredError = PermissionDenied
    /\ result.error.message = "Query execution failed: permission denied for table users"

\* the query shapes the translator supports, as the code lists them
SupportedShapes ==
    { "SELECT * FROM table",
      "SELECT columns FROM table",
      "SELECT COUNT(*) FROM table",
      "SELECT * FROM table WHERE column = value",
      "SELECT column, COUNT(*) FROM table GROUP BY column" }

Unmatched == parsing /\ matched.rule = 0

\* C9 as claimed: when the fallback is entered and no recognizer matches, the
\* call fails with the unsupported-pattern error and the message of that
\* error lists the supported shapes.
C9_MessageListsShapes ==
    Unmatched =>
       /\ pc = "failed"
       /\ \A shape \in SupportedShapes : includes(result.error.message, shape)

\* C9 amended: the call fails with the unsupported-pattern error, whose
\* message quotes the query and advises to install the RPC function; the
\* supported shapes are written to the warning log, not to the message.
C9_ShapesOnlyLogged ==
    Unmatched =>
       /\ pc = "failed"
       /\ Len(requests) = 1
       /\ result.error.message =
             "Query execution failed: Query pattern not supported via Supabase client. Query: \""
               \o query
               \o "\". Install RPC function for complex queries or check query syntax."
       /\ \A shape \in SupportedShapes :
             /\ \E i \in 1..Len(warnings) : includes(warnings[i], shape)
             /\ ~includes(result.error.message, shape)

C9_Witness ==
    /\ Unmatched
    /\ pc = "failed"
    /\ query = "select id from users where id = 1"
    /\ CapabilityAbsent(rpcError)

\* the text between the first and the last quote of a query
quotedLiteral(text) ==
    LET quotes == {i \in 1..Len(text) : CharAt(text, i) = "'"}
    IN  SubSeq(text, SetMin(quotes) + 1, SetMax(quotes) - 1)

\* C10: in the fallback, a select-all with one equality predicate against a
\* quoted string is issued with the literal exactly as written in the query
\* as the value of the filter, its letter case kept.
C10_LiteralKept ==
    (Len(requests) = 2 /\ matched.rule = 3) =>
        /\ requests[2].columns = "*"
        /\ \A filter \in requests[2].eq : filter.value = Str(quotedLiteral(query))
        /\ requests[2].eq # {}

\* the translator has just run on the query: its request is issued and not
\* yet answered, or the call has failed for an unsupported pattern
Translated == parsing /\ Len(answers) = 1

\* a comma-separated list of names: word characters, commas and blanks, no
\* empty item and no blank inside an item
isNameList(text) ==
    LET t == text
        names == {i \in 1..Len(t) : CharAt(t, i) \in WordChars}
        commas == {i \in 1..Len(t) : CharAt(t, i) = ","}
        blanks == {i \in 1..Len(t) : CharAt(t, i) = " "}
    IN  /\ names \cup commas \cup blanks = 1..Len(t)
        /\ 1 \in names /\ Len(t) \in names
        /\ \A i \in names : \A j \in names :
              (i + 1 < j /\ \A k \in (i + 1)..(j - 1) : k \in blanks) => FALSE
        /\ \A i \in commas : \A j \in commas :
              i < j => \E k \in (i + 1)..(j - 1) : k \in names

\* select <names> from <table> [limit <n>] [;]
columnListRe ==
    <<Bol, Lit("select"), Plus(Whitespace), Open(1), One(WordChars),
      Star(WordChars \cup {",", " "}), Close(1), Plus(Whitespace), Lit("from"),
      Plus(Whitespace), Open(2), Plus(WordChars), Close(2), LimitClause(3)>> \o Terminator

\* C11: in the fallback, a query select <comma-separated names> from <table>
\* with an optional limit is taken by the column-list recognizer (the fifth)
\* and issued as a select of those columns on that table; it does not end in
\* the error of an unsupported pattern.
C11_ColumnListRecognized ==
    Translated =>
        LET lowerQuery == trim(toLowerCase(query))
            m == match(lowerQuery, columnListRe)
        IN  (m.ok /\ isNameList(Group(lowerQuery, m, 1))) =>
               /\ matched.rule = 5
               /\ Len(requests) = 2
               /\ requests[2].table = Group(lowerQuery, m, 2)
               /\ requests[2].columns = Group(lowerQuery, m, 1)
               /\ ~includes(result.error.message, "Query pattern not supported")

\* the expressions of the recognizers, in the order of the code
recognizers ==
    <<simpleSelectRe, countRe, whereStringRe, whereNumRe, selectColumnsRe, groupByRe,
      basicSelectRe>>

\* the predicate of recognizer r; the sixth also needs the grouped column to be
\* the selected one
recognizes(r, text) ==
    LET t == text
        m == match(t, recognizers[r])
    IN  m.ok /\ (r = 6 => Group(t, m, 1) = Group(t, m, 4))

firstRecognizer(text) ==
    LET t == text
        taking == {r \in 1..7 : recognizes(r, t)}
    IN  IF taking = {} THEN 0 ELSE SetMin(taking)

\* C12: the recognizers are tried in the order select-all, count-all,
\* string-equality, numeric-equality, column-list, group-count, loose
\* select-all; the first whose predicate matches builds the one request of
\* the fallback, and no later one (the loose one included) is applied.
C12_FirstRecognizerWins ==
    Translated =>
        LET rule == firstRecognizer(trim(toLowerCase(query)))
        IN  /\ matched.rule = rule
            /\ rule = 0 <=> Len(requests) = 1
            /\ rule # 0 =>
                  /\ Len(requests) = 2
                  /\ requests[2].op = "select"
                  /\ requests[2].head <=> rule = 2
                  /\ requests[2].eq # {} <=> rule \in {3, 4}
                  /\ requests[2].columns # "*" <=> rule \in {5, 6}
                  /\ requests[2].limit # {} => rule \in {1, 3, 4, 5}

C12_Witness ==
    /\ Translated
    /\ pc = "structured"
    /\ matched.rule = 2
    /\ recognizes(7, trim(toLowerCase(query)))
    /\ requests[2].head


\* a terminator ';' followed, somewhere after it, by content: a character
\* that is neither whitespace nor a terminator
hasContentAfterTerminator(text) ==
    LET t == text
    IN  \E i \in 1..Len(t) :
            /\ CharAt(t, i) = ";"
            /\ \E j \in (i + 1)..Len(t) : CharAt(t, j) \notin Whitespace \cup {";"}

\* C13: a text that begins with select, holds no forbidden keyword (not even
\* inside a longer word) and, its trailing terminators stripped, still has a
\* ';' followed by content, fails with the multiple-statements error and no
\* request is issued.
C13_MultipleStatementsRejected ==
    (/\ Checked
     /\ startsWith(lowerCaseQuery, "select")
     /\ ~hasForbidden(lowerCaseQuery)
     /\ hasContentAfterTerminator(cleanQuery(generatedQuery)))
       => /\ pc = "failed"
          /\ result = Thrown(NewError(MultipleStatementsMessage))
          /\ requests = <<>>

C13_Witness ==
    /\ Checked
    /\ supabaseClient = "client"
    /\ startsWith(lowerCaseQuery, "select")
    /\ ~hasForbidden(lowerCaseQuery)
    /\ hasContentAfterTerminator(cleanQuery(generatedQuery))
    /\ pc = "failed"
    /\ requests = <<>>

\* C14: every text passed to execute_sql is non-empty, begins with select
\* (in any letter case) and has no ';' followed by content: it is at most one
\* statement.
C14_RpcTextValidated ==
    \A i \in 1..Len(requests) :
        requests[i].op = "rpc" =>
            LET sql == requests[i].sql
            IN  /\ sql # ""
                /\ Len(sql) >= 6
                /\ toLowerCase(SubSeq(sql, 1, 6)) = "select"
                /\ ~hasContentAfterTerminator(sql)

C14_Witness ==
    /\ pc = "rpc"
    /\ Len(requests) = 1
    /\ requests[1].op = "rpc"
    /\ includes(generatedQuery, ";")
    /\ requests[1].sql = "SELECT * FROM users"

\* the text without the terminators and whitespace that end it
withoutTail(text) ==
    LET t == text
        content == {i \in 1..Len(t) : CharAt(t, i) \notin Whitespace \cup {";"}}
    IN  IF content = {} THEN "" ELSE SubSeq(t, 1, SetMax(content))

\* C15: the terminators and whitespace that end a text are ignored: the text
\* q followed by them is accepted exactly when q is, and what is sent to
\* execute_sql is what is sent for q, with no ';' in it.
C15_TailIgnored ==
    Checked =>
        LET q == withoutTail(generatedQuery)
        IN  /\ result.error.message \in ValidationMessages
                 <=> securityError(cleanQuery(q)) # ""
            /\ \A i \in 1..Len(requests) :
                  /\ requests[i].sql = rpcCleanedQuery(cleanQuery(q))
                  /\ ~includes(requests[i].sql, ";")

\* C16: a text that breaks several rules is rejected for the first it breaks
\* in the order read-only, forbidden keyword, multiple statements: one that
\* does not begin with select (DROP TABLE users) is reported as not read-only
\* whatever else it breaks, and one that begins with select and holds a
\* keyword is reported for the keyword even when it has several statements.
C16_FirstRuleReported ==
    Checked =>
        LET notReadOnly == ~startsWith(lowerCaseQuery, "select")
            keyword == hasForbidden(lowerCaseQuery)
            several == hasMultipleStatements(cleanQuery(generatedQuery))
        IN  /\ (notReadOnly /\ (keyword \/ several)) =>
                  result = Thrown(NewError(NotReadOnlyMessage)) /\ requests = <<>>
            /\ (~notReadOnly /\ keyword /\ several) =>
                  result = Thrown(NewError(ForbiddenMessage)) /\ requests = <<>>

C16_Witness ==
    /\ Checked
    /\ supabaseClient = "client"
    /\ startsWith(lowerCaseQuery, "select")
    /\ hasForbidden(lowerCaseQuery)
    /\ hasMultipleStatements(cleanQuery(generatedQuery))
    /\ result = Thrown(NewError(ForbiddenMessage))

\* C17 as claimed: a text that is empty once trimmed is rejected with an
\* empty-query rejection of its own, which is not the not-read-only one, and
\* no request is issued.
C17_EmptyQueryDistinct ==
    (Checked /\ trim(generatedQuery) = "") =>
        /\ pc = "failed"
        /\ requests = <<>>
        /\ result.error.message # NotReadOnlyMessage

\* C17 amended: a text that is empty once trimmed is rejected with the
\* not-read-only error, the one of any text that does not begin with select,
\* and no request is issued.
C17_EmptyQueryNotReadOnly ==
    (Checked /\ trim(generatedQuery) = "") =>
        /\ pc = "failed"
        /\ requests = <<>>
        /\ result = Thrown(NewError(NotReadOnlyMessage))

C17_Witness ==
    /\ Checked
    /\ generatedQuery = " "
    /\ supabaseClient = "client"
    /\ pc = "failed"
    /\ result.error.message = NotReadOnlyMessage

\* C18: when execute_sql succeeds with a sequence of rows, the call returns
\* those rows, in their order and unchanged; the translator is not entered and
\* no query-builder request is issued.
C18_RpcRowsReturned ==
    (/\ Len(answers) >= 1
     /\ answers[1].error = NoError
     /\ answers[1].data.t = "array")
       => /\ pc = "completed"
          /\ result = Rows(answers[1].data.rows)
          /\ ~parsing
          /\ Len(requests) = 1
          /\ Len(answers) = 1

C18_Witness ==
    /\ pc = "completed"
    /\ ~parsing
    /\ Len(answers) = 1
    /\ answers[1].data.t = "array"
    /\ Len(answers[1].data.rows) = 2
    /\ answers[1].data.rows[1] # answers[1].data.rows[2]
    /\ result.rows = answers[1].data.rows

\* the query the translator was given, as it reads it
lowerQuery == trim(toLowerCase(query))

\* C19: in the fallback, a query select count(*) [as <alias>] from <table>
\* issues one count request on <table> and nothing else, and returns one row
\* whose only field is <alias> ('count' without an alias) and holds the count
\* the backend answered.
C19_CountRow ==
    (parsing /\ Len(query) >= 20
             /\ toLowerCase(SubSeq(query, 1, 6)) = "select"
             /\ includes(toLowerCase(SubSeq(query, 7, 20)), "count(*)")) =>
        LET m == match(lowerQuery, countRe)
            alias == IF Group(lowerQuery, m, 1) = "" THEN "count"
                     ELSE Group(lowerQuery, m, 1)
        IN  m.ok =>
              /\ Len(requests) = 2
              /\ requests[2] = CountRequest(Group(lowerQuery, m, 2))
              /\ Len(answers) = 2 =>
                    IF structuredError # NoError
                    THEN pc = "failed"
                    ELSE /\ pc = "completed"
                         /\ result = Rows(<<(alias :> Num(answers[2].count))>>)
                         /\ DOMAIN result.rows[1] = {alias}

C19_Witness ==
    /\ pc = "completed"
    /\ parsing
    /\ query = "SELECT COUNT(*) as total FROM products"
    /\ requests[2] = CountRequest("products")
    /\ result.rows = <<[total |-> Num(2)]>>

\* C20: in the fallback, a query select <col>, count(*) [as <alias>] from
\* <table> group by <col> issues one request, the projection of <col> on
\* <table>, and returns one row for each distinct value of <col> among the
\* fetched rows, holding that value under <col> and the number of its
\* occurrences under <alias>: the distribution of <col>, whose counts add up
\* to the number of fetched rows.
C20_GroupCountDistribution ==
    (parsing /\ matched.rule = 6 /\ pc = "completed") =>
        LET col == matched.groupColumn
            fetched == answers[2].data.rows
            values == {fetched[i][col] : i \in 1..Len(fetched)}
            occurrences(v) == Cardinality({i \in 1..Len(fetched) : fetched[i][col] = v})
        IN  /\ Len(requests) = 2
            /\ requests[2] = SelectRequest(matched.request.table, col, {}, {})
            /\ Len(result.rows) = Cardinality(values)
            /\ {result.rows[k] : k \in 1..Len(result.rows)}
                  = {(matched.alias :> Num(occurrences(v))) @@ (col :> v) : v \in values}

\* C21: in the fallback, a query select * from <table> limit <n> issues its
\* request on <table> with limit n for every n >= 0, zero included, so that at
\* most n rows are returned; without a limit clause the request has no limit.
C21_LimitApplied ==
    (parsing /\ matched.rule = 1) =>
        LET m == match(lowerQuery, simpleSelectRe)
            digits == Group(lowerQuery, m, 2)
        IN  /\ m.ok
            /\ requests[2].table = Group(lowerQuery, m, 1)
            /\ requests[2].columns = "*"
            /\ requests[2].limit = (IF digits = "" THEN {} ELSE {parseInt(digits)})
            /\ (pc = "completed" /\ digits # "") => Len(result.rows) <= parseInt(digits)

\* the text holds a select-all shape on a table: the word select, later a
\* star, later the word from followed by blanks and a name
hasSelectAllShape(text) ==
    LET t == text
        n == Len(t)
        selects == {i \in 1..(n - 5) : SubSeq(t, i, i + 5) = "select"}
        stars == {j \in 1..n : CharAt(t, j) = "*"}
        froms == {k \in 1..(n - 5) :
                     /\ SubSeq(t, k, k + 3) = "from"
                     /\ CharAt(t, k + 4) \in Whitespace
                     /\ \E e \in (k + 5)..n :
                           /\ CharAt(t, e) \in WordChars
                           /\ \A b \in (k + 4)..(e - 1) : CharAt(t, b) \in Whitespace}
    IN  \E i \in selects : \E j \in stars : \E k \in froms : i + 5 < j /\ j < k

\* C22: in the fallback, when none of the recognizers 1 to 6 takes the query
\* and the text holds a select-all shape on a table, the loose recognizer
\* takes it and issues one select of all columns on one table, without filter
\* and without limit, whatever else the query says; the call ends in the error
\* of an unsupported pattern only when the text holds no such shape.
C22_LooseRecognizerFires ==
    (Translated /\ matched.rule \notin 1..6) =>
        IF hasSelectAllShape(lowerQuery)
        THEN /\ matched.rule = 7
             /\ Len(requests) = 2
             /\ requests[2] = SelectRequest(requests[2].table, "*", {}, {})
             /\ includes(lowerQuery, "from " \o requests[2].table)
             /\ pc = "structured"
        ELSE /\ matched.rule = 0
             /\ pc = "failed"
             /\ includes(result.error.message, "Query pattern not supported")

C26_Step ==
    /\ call' # call => process' = process
    /\ supabaseClient' # supabaseClient => (supabaseClient' = "client" /\ call' = call)

\* C26: no step of an executeDbQuery call, successful or failed, writes the
\* client handle, dbInstance or dbType; the handle changes only in a step of
\* an initialization, which leaves the call as it is.
C26_NoProcessWrite == [][C26_Step]_vars

C26_Witness ==
    /\ pc = "completed"
    /\ Len(requests) = 2
    /\ supabaseClient = "client"
    /\ dbInstance = "undefined"
    /\ dbType = "undefined"

\* the select list of the query is the aggregate count(*), alone or after a
\* grouped column
selectsCount(text) ==
    LET t == text
        m == match(t, <<Bol, Lit("select"), Plus(Whitespace),
                         Opt(<<Plus(WordChars), Star(Whitespace), Lit(","),
                               Star(Whitespace)>>),
                         Lit("count(*)")>>)
    IN  m.ok

\* C27: in the fallback, a query whose select list is count(*), with or
\* without a grouped column, is answered with aggregated rows only, one count
\* row or the rows of a group count, or fails; clauses the count and the
\* group-count recognizers do not accept never make it return the rows of the
\* table as they are.
C27_CountNeverRawRows ==
    (parsing /\ pc = "completed" /\ matched.rule \notin {2, 6}) =>
        ~selectsCount(lowerQuery)

\* neither initializeDatabase nor an initialization of the client has run
Uninitialized == supabaseClient = "null" /\ dbType = "undefined"

\* C28: as long as neither initializeDatabase nor an initialization of the
\* Supabase client has been performed, isDatabaseInitialized() is false and
\* getDatabaseStatus() reports isInitialized and hasDirectConnection false;
\* they report an initialized database only once a connection handle exists.
C28_UninitializedReported ==
    /\ Uninitialized =>
          /\ ~isDatabaseInitialized
          /\ ~getDatabaseStatus.isInitialized
          /\ ~getDatabaseStatus.hasDirectConnection
    /\ isDatabaseInitialized => supabaseClient = "client"
    /\ getDatabaseStatus.isInitialized => supabaseClient = "client"

Terminal == {"completed", "failed"}

\* C24: two executeDbQuery calls given the same text, with the same handle,
\* whose requests the backend answers alike, issue the same requests in the
\* same order and end alike: with the same rows or with the same error.
C24_Deterministic ==
    \A i \in CallIds : \A j \in CallIds \ {i} :
        LET a == calls[i]
            b == calls[j]
        IN  (/\ a.pc # "idle" /\ b.pc # "idle"
             /\ a.generatedQuery = b.generatedQuery
             /\ a.supabaseClient = b.supabaseClient
             /\ Len(a.answers) <= Len(b.answers)
             /\ SubSeq(b.answers, 1, Len(a.answers)) = a.answers) =>
                /\ Len(a.requests) <= Len(b.requests)
                /\ SubSeq(b.requests, 1, Len(a.requests)) = a.requests
                /\ a.pc \in Terminal => b = a
                /\ Len(a.answers) = Len(b.answers) =>
                      /\ b.requests = a.requests
                      /\ b.pc = a.pc
                      /\ b.result = a.result

C24_Witness ==
    /\ calls[1].pc = "completed"
    /\ calls[2].pc = "completed"
    /\ calls[1].generatedQuery = calls[2].generatedQuery
    /\ Len(calls[1].requests) = 2
    /\ calls[1].answers = calls[2].answers
    /\ Len(calls[1].result.rows) = 1
    /\ calls[1].result = calls[2].result

\* the state of a call given the text, with the handle it read and the answers
\* it has had, when no other call runs: executeDbQuery as one call runs it
alone(text, client, had) ==
    LET entered == checked(text)
        begun == [NoCall EXCEPT !.generatedQuery = text]
        translation == translate(entered.trimmedQuery)
        sent == [begun EXCEPT !.supabaseClient = client,
                              !.query = entered.trimmedQuery,
                              !.requests = <<RpcRequest(entered.cleanedQuery)>>,
                              !.answers = had]
        failed(c, error) == [c EXCEPT !.pc = "failed", !.result = Thrown(error)]
    IN  IF entered.rejection # "" THEN failed(begun, NewError(entered.rejection))
        ELSE IF client = "null"
        THEN failed([begun EXCEPT !.supabaseClient = client], NewError(ClientMissingMessage))
        ELSE IF had = <<>> THEN [sent EXCEPT !.pc = "rpc"]
        ELSE IF had[1].error = NoError
        THEN [sent EXCEPT !.pc = "completed", !.result = Rows(rpcRows(had[1].data))]
        ELSE IF ~fallsBack(rpcThrown(had[1].error))
        THEN failed(sent, wrapError(rpcThrown(had[1].error)))
        ELSE IF translation.rule = 0
        THEN failed([sent EXCEPT !.parsing = TRUE, !.warnings = SupportedPatternWarnings],
                    wrapError(NewError(unsupportedMessage(entered.trimmedQuery))))
        ELSE LET asked == [sent EXCEPT !.parsing = TRUE, !.matched = translation,
                                       !.requests = Append(@, translation.request)]
                 outcome == structuredResult(translation, had[2])
             IN  IF Len(had) = 1 THEN [asked EXCEPT !.pc = "structured"]
                 ELSE [asked EXCEPT !.result = outcome,
                                    !.pc = IF outcome.kind = "rows" THEN "completed"
                                           ELSE "failed"]

\* C25: executeDbQuery calls running side by side do not interact: however
\* their steps interleave, each call stands where it would stand, and ends as
\* it would end, had it run alone with the same answers of the backend.
C25_CallsDoNotInteract ==
    \A i \in CallIds :
        LET c == calls[i]
        IN  c.pc # "idle" => c = alone(c.generatedQuery, c.supabaseClient, c.answers)

C25_Witness ==
    /\ calls[1].parsing /\ calls[2].parsing
    /\ calls[1].generatedQuery # calls[2].generatedQuery
    /\ calls[1].pc = "completed"
    /\ calls[2].pc = "structured"
    /\ calls[1].matched.rule = 6
    /\ calls[2].matched.rule = 2

RECURSIVE countTotal(_, _)
countTotal(rows, field) ==
    IF rows = <<>> THEN 0 ELSE rows[1][field].n + countTotal(Tail(rows), field)

\* the rows of a completed call are all the answer of the backend holds
wholeAnswer ==
    IF ~parsing THEN result.rows = rpcRows(answers[1].data)
    ELSE IF matched.rule = 2 THEN result.rows = <<(matched.alias :> Num(answers[2].count))>>
    ELSE IF matched.rule = 6
    THEN countTotal(result.rows, matched.alias) = Len(answers[2].data.rows)
    ELSE result.rows = answers[2].data.rows

C23_Outcome ==
    /\ pc \in {"idle", "rpc", "structured", "completed", "failed"}
    /\ pc \in {"idle", "rpc", "structured"} => result = NoResult
    /\ pc = "completed" =>
          /\ result.kind = "rows"
          /\ result.error = NoError
          /\ Len(answers) = Len(requests)
          /\ answers[Len(answers)].error = NoError
          /\ wholeAnswer
    /\ pc = "failed" =>
          /\ result.kind = "error"
          /\ result.rows = <<>>
          /\ result.error.message # ""
          /\ Len(answers) = Len(requests)

\* C23: when the backend answers every request, every executeDbQuery call
\* ends, and ends in one of two ways: completed, with all the rows of the
\* answer, or failed, with an error for the caller; it returns no part of an
\* answer, and a failure leaves it neither waiting nor outside these states.
C23_Terminates ==
    /\ []C23_Outcome
    /\ (pc \in {"rpc", "structured"}) ~> (pc \in {"completed", "failed"})

C23_Witness ==
    /\ pc = "failed"
    /\ parsing
    /\ matched.rule = 6
    /\ Len(answers) = 2
    /\ answers[2].error = NoError
    /\ result.kind = "error"

\* the tool has responded after the schema, the query, its execution and the
\* summary all succeeded: it holds the rows, and its answer is not the error
\* of the summary call
ToolSucceeded ==
    /\ handler = "tool"
    /\ stage = "responded"
    /\ rawDbData.t = "array"
    /\ response.error.message \notin AiErrors

\* C29: when schema retrieval, query generation, query execution and
\* summarization all succeed, executeNaturalLanguageQueryTool returns a value
\* that satisfies responseSchema, a content list whose every item has type
\* "text" and a text, and the handler of tools/dynamicQuery answers with a
\* result, not with an error.
C29_ToolResponseValid ==
    ToolSucceeded =>
        /\ response.kind = "result"
        /\ Len(response.content) >= 1
        /\ responseSchemaAccepts(response)

\* C30: in handleNaturalLanguageQuery, once executeDbQuery has returned rows,
\* a failure of the summary call does not fail the request: the response is
\* the success response with the rows and the masked summary, ai_summary
\* being "Summary not available." when the summary call failed, and no 500
\* is sent.
C30_SummaryFailureTolerated ==
    (handler = "http" /\ stage = "responded" /\ rawDbData.t = "array") =>
        /\ response.kind = "json"
        /\ response.status = 200
        /\ response.error = NoResponse.error
        /\ response.data = rawDbData.rows
        /\ response.masked_summary = formatResultsSummary(rawDbData.rows, maskFields)
        /\ response.ai_summary \in AiSummaries \cup {SummaryUnavailable}

C30_Witness ==
    /\ handler = "http"
    /\ stage = "responded"
    /\ maskFields = {"stock"}
    /\ rawDbData.t = "array"
    /\ Len(rawDbData.rows) = 2
    /\ response.status = 200
    /\ response.data = rawDbData.rows
    /\ response.ai_summary = SummaryUnavailable
    /\ includes(response.masked_summary, "stock: ***")

====
